---- MODULE Spec2Model ----
(***************************************************************************)
(* Model of the NEORV32 executable image generator (sw/image_gen/          *)
(* image_gen.c) and of its SHA-256 routine (sw/lib/source/crypto.c).       *)
(*                                                                         *)
(* A uint32_t is the pair <<hi, lo>> of its 16-bit halves, so that all     *)
(* arithmetic is carried out modulo 2^32 exactly as the C code does it.    *)
(* A byte is a number in 0..255.                                           *)
(***************************************************************************)
EXTENDS Integers, Sequences, FiniteSets, TLC

(***************************************************************************)
(* 32-bit unsigned arithmetic                                              *)
(***************************************************************************)

\* 2^16: the radix of the two halves of a uint32_t
HALF == 256 * 256

\* 2^n for 0 <= n <= 16
RECURSIVE Pow2(_)
Pow2(n) == IF n = 0 THEN 1 ELSE 2 * Pow2(n - 1)

\* uint32_t value of a small natural number (below 2^31)
ToU32(n) == <<n \div HALF, n % HALF>>

\* the four bytes of a uint32_t, least significant first
ByteOf(x, b) ==
  CASE b = 0 -> x[2] % 256
    [] b = 1 -> x[2] \div 256
    [] b = 2 -> x[1] % 256
    [] OTHER -> x[1] \div 256

\* uint32_t addition: wraps modulo 2^32
Add32(x, y) ==
  LET lo == x[2] + y[2]
      hi == x[1] + y[1] + (lo \div HALF)
  IN  <<hi % HALF, lo % HALF>>

\* x - y on uint32_t: wraps modulo 2^32
Sub32(x, y) ==
  LET lo == x[2] - y[2] + HALF
      hi == x[1] - y[1] + HALF - (IF lo < HALF THEN 1 ELSE 0)
  IN  <<hi % HALF, lo % HALF>>

\* x < y on uint32_t
Lt32(x, y) == x[1] < y[1] \/ (x[1] = y[1] /\ x[2] < y[2])

\* ~x on uint32_t
Not32(x) == <<(HALF - 1) - x[1], (HALF - 1) - x[2]>>

RECURSIVE And16(_, _)
And16(a, b) ==
  IF a = 0 \/ b = 0 THEN 0
  ELSE (IF a % 2 = 1 /\ b % 2 = 1 THEN 1 ELSE 0) + 2 * And16(a \div 2, b \div 2)

RECURSIVE Xor16(_, _)
Xor16(a, b) ==
  IF a = 0 THEN b
  ELSE IF b = 0 THEN a
  ELSE ((a + b) % 2) + 2 * Xor16(a \div 2, b \div 2)

RECURSIVE Or16(_, _)
Or16(a, b) ==
  IF a = 0 THEN b
  ELSE IF b = 0 THEN a
  ELSE (IF a % 2 = 1 \/ b % 2 = 1 THEN 1 ELSE 0) + 2 * Or16(a \div 2, b \div 2)

And32(x, y) == <<And16(x[1], y[1]), And16(x[2], y[2])>>
Xor32(x, y) == <<Xor16(x[1], y[1]), Xor16(x[2], y[2])>>
Or32(x, y)  == <<Or16(x[1], y[1]), Or16(x[2], y[2])>>

\* (uint32_t)(byte << (8*b)) for b in 0..3.  For b = 3 and byte >= 128 the
\* promoted int shift reaches the sign bit; GCC and Clang define the result
\* as the wrapped value, which the conversion to uint32_t keeps.
ShlByte(byte, b) ==
  CASE b = 0 -> <<0, byte>>
    [] b = 1 -> <<0, byte * 256>>
    [] b = 2 -> <<byte, 0>>
    [] OTHER -> <<byte * 256, 0>>

(***************************************************************************)
(* crypto.c: SHA-256                                                       *)
(***************************************************************************)

\* static const uint32_t k[64]
K == <<
  <<\h428a, \h2f98>>, <<\h7137, \h4491>>, <<\hb5c0, \hfbcf>>, <<\he9b5, \hdba5>>, <<\h3956, \hc25b>>, <<\h59f1, \h11f1>>, <<\h923f, \h82a4>>, <<\hab1c, \h5ed5>>,
  <<\hd807, \haa98>>, <<\h1283, \h5b01>>, <<\h2431, \h85be>>, <<\h550c, \h7dc3>>, <<\h72be, \h5d74>>, <<\h80de, \hb1fe>>, <<\h9bdc, \h06a7>>, <<\hc19b, \hf174>>,
  <<\he49b, \h69c1>>, <<\hefbe, \h4786>>, <<\h0fc1, \h9dc6>>, <<\h240c, \ha1cc>>, <<\h2de9, \h2c6f>>, <<\h4a74, \h84aa>>, <<\h5cb0, \ha9dc>>, <<\h76f9, \h88da>>,
  <<\h983e, \h5152>>, <<\ha831, \hc66d>>, <<\hb003, \h27c8>>, <<\hbf59, \h7fc7>>, <<\hc6e0, \h0bf3>>, <<\hd5a7, \h9147>>, <<\h06ca, \h6351>>, <<\h1429, \h2967>>,
  <<\h27b7, \h0a85>>, <<\h2e1b, \h2138>>, <<\h4d2c, \h6dfc>>, <<\h5338, \h0d13>>, <<\h650a, \h7354>>, <<\h766a, \h0abb>>, <<\h81c2, \hc92e>>, <<\h9272, \h2c85>>,
  <<\ha2bf, \he8a1>>, <<\ha81a, \h664b>>, <<\hc24b, \h8b70>>, <<\hc76c, \h51a3>>, <<\hd192, \he819>>, <<\hd699, \h0624>>, <<\hf40e, \h3585>>, <<\h106a, \ha070>>,
  <<\h19a4, \hc116>>, <<\h1e37, \h6c08>>, <<\h2748, \h774c>>, <<\h34b0, \hbcb5>>, <<\h391c, \h0cb3>>, <<\h4ed8, \haa4a>>, <<\h5b9c, \hca4f>>, <<\h682e, \h6ff3>>,
  <<\h748f, \h82ee>>, <<\h78a5, \h636f>>, <<\h84c8, \h7814>>, <<\h8cc7, \h0208>>, <<\h90be, \hfffa>>, <<\ha450, \h6ceb>>, <<\hbef9, \ha3f7>>, <<\hc671, \h78f2>>
>>

\* the initial hash value h[8]
H0 == << <<\h6a09, \he667>>, <<\hbb67, \hae85>>, <<\h3c6e, \hf372>>, <<\ha54f, \hf53a>>,
         <<\h510e, \h527f>>, <<\h9b05, \h688c>>, <<\h1f83, \hd9ab>>, <<\h5be0, \hcd19>> >>

\* SHR(x,n) = x >> n, 0 < n < 32
SHR(x, n) ==
  IF n >= 16 THEN <<0, x[1] \div Pow2(n - 16)>>
  ELSE <<x[1] \div Pow2(n),
         (x[2] \div Pow2(n)) + (x[1] % Pow2(n)) * Pow2(16 - n)>>

\* ROTR(x,n) = (x >> n) | (x << (32 - n)), 0 < n < 32
ROTR(x, n) ==
  LET y == IF n >= 16 THEN <<x[2], x[1]>> ELSE x
      m == IF n >= 16 THEN n - 16 ELSE n
  IN  <<(y[1] \div Pow2(m)) + (y[2] % Pow2(m)) * Pow2(16 - m),
        (y[2] \div Pow2(m)) + (y[1] % Pow2(m)) * Pow2(16 - m)>>

CH(x, y, z)  == Xor32(And32(x, y), And32(Not32(x), z))
MAJ(x, y, z) == Xor32(Xor32(And32(x, y), And32(x, z)), And32(y, z))
BSIG0(x) == Xor32(Xor32(ROTR(x, 2), ROTR(x, 13)), ROTR(x, 22))
BSIG1(x) == Xor32(Xor32(ROTR(x, 6), ROTR(x, 11)), ROTR(x, 25))
\* a faulty SSIG0: a rotation by 3 where the shift by 3 belongs
SSIG0_Rotate(x) == Xor32(Xor32(ROTR(x, 7), ROTR(x, 18)), ROTR(x, 3))

SSIG0(x) == Xor32(Xor32(ROTR(x, 7), ROTR(x, 18)), SHR(x, 3))
SSIG1(x) == Xor32(Xor32(ROTR(x, 17), ROTR(x, 19)), SHR(x, 10))

\* (p[4i] << 24) | (p[4i+1] << 16) | (p[4i+2] << 8) | p[4i+3]: a big-endian
\* word from four bytes
BigEndianWord(b0, b1, b2, b3) ==
  Or32(Or32(ShlByte(b0, 3), ShlByte(b1, 2)), Or32(ShlByte(b2, 1), ShlByte(b3, 0)))

\* w[0..15] from the 64 bytes starting at C index off of the byte sequence p
\* (TLA+ sequences count from 1, C arrays from 0)
FirstWords(p, off) ==
  [j \in 1..16 |-> BigEndianWord(p[off + 4*(j-1) + 1], p[off + 4*(j-1) + 2],
                                 p[off + 4*(j-1) + 3], p[off + 4*(j-1) + 4])]

\* w[i] = SSIG1(w[i-2]) + w[i-7] + SSIG0(w[i-15]) + w[i-16] for i = 16..63
RECURSIVE Expand(_)
Expand(ww) ==
  IF Len(ww) >= 64 THEN ww
  ELSE LET n == Len(ww) + 1
       IN  Expand(Append(ww, Add32(Add32(SSIG1(ww[n-2]), ww[n-7]),
                                   Add32(SSIG0(ww[n-15]), ww[n-16]))))

\* the message schedule w[64] of the block at C index off of p
Schedule(p, off) == Expand(FirstWords(p, off))

\* one round of the compression loop: r = <<a,b,c,d,e,f,g,h_>>, round i (0-based)
Round(r, ww, i) ==
  LET t1 == Add32(Add32(Add32(r[8], BSIG1(r[5])), Add32(CH(r[5], r[6], r[7]), K[i + 1])),
                  ww[i + 1])
      t2 == Add32(BSIG0(r[1]), MAJ(r[1], r[2], r[3]))
  IN  <<Add32(t1, t2), r[1], r[2], r[3], Add32(r[4], t1), r[5], r[6], r[7]>>

\* h[0] += a; ... h[7] += h_
AddState(hh, r) == [j \in 1..8 |-> Add32(hh[j], r[j])]

(***************************************************************************)
(* Bounds of the model and the inputs it draws from                        *)
(***************************************************************************)

\* most complete 4-byte words in a short input file
MaxWords == 2

\* longest message handed to sha256 directly
MaxShaLen == 66

\* unsigned char signature[256]: the RSA-2048 signature buffer
SIG_SIZE == 256

\* the 4-byte groups short input files are built from
WordChoices == {<<1, 0, 0, 0>>, <<2, 0, 0, 0>>, <<255, 255, 255, 255>>}

\* the 0..3 bytes that may follow the last complete word of an input file
Tails == {<<>>, <<7>>, <<1, 255>>, <<9, 8, 200>>}

RECURSIVE WordSeqs(_)
WordSeqs(n) ==
  IF n = 0 THEN {<<>>}
  ELSE {s \o ww : s \in WordSeqs(n - 1), ww \in WordChoices} \cup WordSeqs(n - 1)

\* a message of n bytes with a fixed, position-dependent content
Pattern(n) == [j \in 1..n |-> (j * 37 + 11) % 256]

\* the input files: every short file, and one file long enough for sha256 to
\* see a full block and a padding block of its own
InputFiles == {s \o t : s \in WordSeqs(MaxWords), t \in Tails} \cup {Pattern(120)}

\* the messages of the sha256 unit runs: "", "abc", every length up to
\* MaxShaLen, and one with a full block followed by two padding blocks
ShaMessages == {<<97, 98, 99>>} \cup {Pattern(n) : n \in 0..MaxShaLen} \cup {Pattern(120)}

\* the valid operation selectors of argv[1], and one that is not
Operations == {"-app_bin", "-app_vhd", "-bld_vhd", "-raw_hex", "-raw_bin",
               "-raw_coe", "-raw_mem", "-raw_mif"}

\* what the never-written unsigned char buffer[4] may hold
GarbageBuffers == {<<0, 0, 0, 0>>, <<170, 85, 170, 85>>}

\* the sizes of sha256.sig the signer may leave behind
SigFileLens == {0, 1, 3, 4, 6, SIG_SIZE - 1, SIG_SIZE, SIG_SIZE + 1}

(***************************************************************************)
(* State                                                                   *)
(***************************************************************************)
VARIABLES
  pc,             \* position of main: "start", ..., "done", "crashed"
  argc,           \* argument count
  operation,      \* argv[1]
  status,         \* return value of main
  log,            \* messages printed to stdout
  inData,         \* content of the input file argv[2]
  inpos,          \* read position of the input stream
  input_size,     \* unsigned int input_size
  input_words,    \* unsigned int input_words
  buffer,         \* unsigned char buffer[4]
  size,           \* uint32_t size
  checksum,       \* uint32_t checksum
  i,              \* unsigned int i
  outPreExists,   \* whether the output file argv[3] exists before the run
  outOld,         \* the output file is still in its pre-run state
  output,         \* what the run has written to the output stream
  input_buf,      \* unsigned char *input_buf
  sha256_digest,  \* uint32_t sha256_digest[8]
  digestFile,     \* the file sha256.bin
  sigFile,        \* the file sha256.sig
  signer_calls,   \* number of system(cmd) calls that have returned
  ret,            \* int ret = system(cmd)
  sig_file,       \* FILE *sig_file: "unset", "open" or "null"
  sig_len,        \* size_t sig_len
  signature_buf,  \* the bytes read into unsigned char signature[256]
  data,           \* sha256: const unsigned char *data
  len,            \* sha256: size_t len
  h,              \* sha256: uint32_t h[8]
  offset,         \* sha256: size_t offset
  buf,            \* sha256: unsigned char buf[128], the first 64 bytes
  w,              \* sha256: uint32_t w[64]
  regs,           \* sha256: a, b, c, d, e, f, g, h_
  round,          \* sha256: the round counter i of the compression loop
  phase,          \* sha256: which copy of the compression is running
  sha_pc,         \* sha256: position
  out_digest,     \* sha256: uint32_t out_digest[8]
  blocks          \* sha256: the 64-byte blocks compressed so far, in order

mainVars == <<pc, argc, operation, status, log>>
inVars   == <<inData, inpos, input_size, input_words, buffer>>
binVars  == <<size, checksum>>
outVars  == <<outPreExists, outOld, output>>
signVars == <<input_buf, sha256_digest, digestFile, sigFile, signer_calls, ret,
              sig_file, sig_len, signature_buf>>
shaVars  == <<data, len, h, offset, buf, w, regs, round, phase, sha_pc, out_digest,
              blocks>>
vars == <<mainVars, inVars, binVars, i, outVars, signVars, shaVars>>

NoFile == [exists |-> FALSE, content |-> <<>>]

\* the state sha256's locals are in while it is not running
ShaIdle ==
  /\ data = <<>> /\ len = 0 /\ h = <<>> /\ offset = 0 /\ buf = <<>> /\ w = <<>>
  /\ regs = <<>> /\ round = 0 /\ phase = "none" /\ sha_pc = "idle" /\ out_digest = <<>>
  /\ blocks = <<>>

\* the declarations of main before its first statement
Init ==
  /\ pc = "start"
  /\ argc \in {2, 4}
  /\ operation = ""
  /\ status = 0
  /\ log = <<>>
  /\ inData = <<>> /\ inpos = 0 /\ input_size = 0 /\ input_words = 0
  /\ buffer \in GarbageBuffers
  /\ size = <<0, 0>> /\ checksum = <<0, 0>>
  /\ i = 0
  /\ outPreExists \in BOOLEAN
  /\ outOld = TRUE
  /\ output = <<>>
  /\ input_buf = <<>> /\ sha256_digest = <<>>
  /\ digestFile = NoFile /\ sigFile = NoFile
  /\ signer_calls = 0 /\ ret = 0
  /\ sig_file = "unset" /\ sig_len = 0 /\ signature_buf = <<>>
  /\ ShaIdle

(***************************************************************************)
(* image_gen.c: helpers                                                    *)
(***************************************************************************)

\* const uint32_t signature = 0x4788CAFE
signature == <<\h4788, \hCAFE>>

Min(a, b) == IF a < b THEN a ELSE b

\* number of items fread(&buffer, 1, n, input) returns
FreadCount(n) == Min(n, Len(inData) - inpos)

\* buffer after fread(&buffer, 1, n, input): the bytes read, then what the
\* buffer held before
FreadBuffer(n) ==
  [j \in 1..4 |-> IF j <= FreadCount(n) THEN inData[inpos + j] ELSE buffer[j]]

\* tmp = buffer[0] << 0 | buffer[1] << 8 | buffer[2] << 16 | buffer[3] << 24
TmpWord(b) ==
  Or32(Or32(ShlByte(b[1], 0), ShlByte(b[2], 1)), Or32(ShlByte(b[3], 2), ShlByte(b[4], 3)))

\* fputc((x >> 0) & 0xFF), fputc((x >> 8) & 0xFF), ... of a uint32_t
PutWordLE(x) == <<ByteOf(x, 0), ByteOf(x, 1), ByteOf(x, 2), ByteOf(x, 3)>>

\* a faulty checksum: the one's complement, without the + 1
SumComplementNoIncrement(c) == Not32(c)

\* checksum = (~checksum) + 1
SumComplement(c) == Add32(Not32(c), ToU32(1))

\* a line of text written to the output: its format, its word and its address
Tok(k, v, a) == <<k, v, a>>

Zero32 == <<0, 0>>

\* return from main
Return(code) ==
  /\ pc' = "done"
  /\ status' = code

(***************************************************************************)
(* image_gen.c: arguments and files                                        *)
(***************************************************************************)

\* (argc != 4) && (argc != 5): print the usage text, return 0
Usage ==
  /\ pc = "start"
  /\ argc # 4 /\ argc # 5
  /\ Return(0)
  /\ log' = Append(log, "usage")
  /\ UNCHANGED <<argc, operation, inVars, binVars, i, outVars, signVars, shaVars>>

\* argv[1] names no operation
InvalidOperation ==
  /\ pc = "start"
  /\ argc = 4 \/ argc = 5
  /\ \E op \in {"-bogus"} :
       /\ op \notin Operations
       /\ operation' = op
  /\ Return(-1)
  /\ log' = Append(log, "Invalid operation")
  /\ UNCHANGED <<argc, inVars, binVars, i, outVars, signVars, shaVars>>

\* argv[1] selects an operation
SelectOperation ==
  /\ pc = "start"
  /\ argc = 4 \/ argc = 5
  /\ \E op \in Operations : operation' = op
  /\ pc' = "open_input"
  /\ UNCHANGED <<argc, status, log, inVars, binVars, i, outVars, signVars, shaVars>>

\* fopen(argv[2], "rb") fails
InputFileError ==
  /\ pc = "open_input"
  /\ Return(-2)
  /\ log' = Append(log, "Input file error")
  /\ UNCHANGED <<argc, operation, inVars, binVars, i, outVars, signVars, shaVars>>

\* the input file is empty
InputFileEmpty ==
  /\ pc = "open_input"
  /\ inData' = <<>>
  /\ input_size' = 0
  /\ input_words' = 0
  /\ Return(-3)
  /\ log' = Append(log, "Input file is empty")
  /\ UNCHANGED <<argc, operation, inpos, buffer, binVars, i, outVars, signVars, shaVars>>

\* the input file opens and is not empty
OpenInput ==
  /\ pc = "open_input"
  /\ \E file \in InputFiles \ {<<>>} :
       /\ inData' = file
       /\ input_size' = Len(file)
       /\ input_words' = Len(file) \div 4
       /\ log' = IF Len(file) % 4 # 0 THEN Append(log, "WARNING not a multiple of 4")
                 ELSE log
  /\ inpos' = 0
  /\ pc' = "open_output"
  /\ UNCHANGED <<argc, operation, status, buffer, binVars, i, outVars, signVars, shaVars>>

\* fopen(argv[3], "wb") fails
OutputFileError ==
  /\ pc = "open_output"
  /\ Return(-4)
  /\ log' = Append(log, "Output file error")
  /\ UNCHANGED <<argc, operation, inVars, binVars, i, outVars, signVars, shaVars>>

\* fopen(argv[3], "wb") creates or truncates the output file
OpenOutput ==
  /\ pc = "open_output"
  /\ outOld' = FALSE
  /\ output' = <<>>
  /\ pc' = CASE operation = "-app_bin" -> "app_bin"
             [] operation \in {"-app_vhd", "-bld_vhd"} -> "vhd"
             [] OTHER -> "raw"
  /\ UNCHANGED <<argc, operation, status, log, inVars, binVars, i, outPreExists,
                 signVars, shaVars>>

(***************************************************************************)
(* image_gen.c: -app_bin                                                   *)
(***************************************************************************)

\* reserve the 12 header bytes, reset checksum and size, rewind the input
AppBinReserve ==
  /\ pc = "app_bin"
  /\ output' = [j \in 1..12 |-> 0]
  /\ checksum' = Zero32
  /\ size' = Zero32
  /\ inpos' = 0
  /\ pc' = "app_bin_loop"
  /\ UNCHANGED <<argc, operation, status, log, inData, input_size, input_words, buffer,
                 i, outPreExists, outOld, signVars, shaVars>>

\* one pass of while (fread(&buffer, 1, 4, input) != 0)
AppBinLoop ==
  /\ pc = "app_bin_loop"
  /\ FreadCount(4) # 0
  /\ buffer' = FreadBuffer(4)
  /\ inpos' = inpos + FreadCount(4)
  /\ checksum' = Add32(checksum, TmpWord(buffer'))
  /\ output' = output \o buffer'
  /\ size' = Add32(size, ToU32(4))
  /\ UNCHANGED <<mainVars, inData, input_size, input_words, i, outPreExists, outOld,
                 signVars, shaVars>>

\* the 12 header bytes: signature, size, checksum
HeaderBytes(sz, sum) == PutWordLE(signature) \o PutWordLE(sz) \o PutWordLE(SumComplement(sum))

\* fread returns 0: rewind the output, write the header over the reserved
\* bytes, close the files, return 0
AppBinHeader ==
  /\ pc = "app_bin_loop"
  /\ FreadCount(4) = 0
  /\ checksum' = SumComplement(checksum)
  /\ output' = HeaderBytes(size, checksum) \o SubSeq(output, 13, Len(output))
  /\ Return(0)
  /\ UNCHANGED <<argc, operation, log, inVars, size, i, outPreExists, outOld,
                 signVars, shaVars>>

(***************************************************************************)
(* image_gen.c: -app_vhd and -bld_vhd, the image words                     *)
(***************************************************************************)

\* input_words - 1 in unsigned int arithmetic
LoopBound == Sub32(ToU32(input_words), ToU32(1))

\* the package header with the image size in bytes; i = 0
VhdHeader ==
  /\ pc = "vhd"
  /\ output' = IF operation = "-app_vhd"
               THEN <<Tok("app_header", ToU32(input_size), Zero32)>>
               ELSE <<Tok("bld_header", ToU32(input_size + 260), Zero32)>>
  /\ i' = 0
  /\ pc' = "vhd_loop"
  /\ UNCHANGED <<argc, operation, status, log, inVars, binVars, outPreExists, outOld,
                 signVars, shaVars>>

\* one pass of while (i < (input_words-1)) in which fread returns data
VhdLoop ==
  /\ pc = "vhd_loop"
  /\ Lt32(ToU32(i), LoopBound)
  /\ FreadCount(4) # 0
  /\ buffer' = FreadBuffer(4)
  /\ inpos' = inpos + FreadCount(4)
  /\ output' = Append(output, Tok("word,", TmpWord(buffer'), Zero32))
  /\ i' = i + 1
  /\ UNCHANGED <<mainVars, inData, input_size, input_words, binVars, outPreExists,
                 outOld, signVars, shaVars>>

\* a pass of the loop in which fread returns 0: report and break
VhdLoopBreak ==
  /\ pc = "vhd_loop"
  /\ Lt32(ToU32(i), LoopBound)
  /\ FreadCount(4) = 0
  /\ log' = Append(log, "Unexpected input file end!")
  /\ pc' = "vhd_last"
  /\ UNCHANGED <<argc, operation, status, inVars, binVars, i, outVars, signVars, shaVars>>

\* the loop condition i < (input_words-1) is false
VhdLoopExit ==
  /\ pc = "vhd_loop"
  /\ ~Lt32(ToU32(i), LoopBound)
  /\ pc' = "vhd_last"
  /\ UNCHANGED <<argc, operation, status, log, inVars, binVars, i, outVars, signVars,
                 shaVars>>

\* the last image word, written without a comma, if fread returns data
LastWord == IF FreadCount(4) # 0 THEN <<Tok("word", TmpWord(FreadBuffer(4)), Zero32)>>
            ELSE <<>>

\* -app_vhd: the last word, the end of the package, close the files, return 0
AppVhdLast ==
  /\ pc = "vhd_last"
  /\ operation = "-app_vhd"
  /\ buffer' = FreadBuffer(4)
  /\ inpos' = inpos + FreadCount(4)
  /\ i' = IF FreadCount(4) # 0 THEN i + 1 ELSE i
  /\ log' = IF FreadCount(4) # 0 THEN log ELSE Append(log, "Unexpected input file end!")
  /\ output' = output \o LastWord \o <<Tok("app_end", Zero32, Zero32)>>
  /\ Return(0)
  /\ UNCHANGED <<argc, operation, inData, input_size, input_words, binVars,
                 outPreExists, outOld, signVars, shaVars>>

\* the lines that close the image constant and open the secure-boot constant
SecureBootOpen ==
  <<Tok(");", Zero32, Zero32), Tok("secure_boot_info", Zero32, Zero32)>>

\* -bld_vhd: the last word, then ");" and the opening line of
\* bootloader_init_secure_boot_info_c
BldVhdLast ==
  /\ pc = "vhd_last"
  /\ operation = "-bld_vhd"
  /\ buffer' = FreadBuffer(4)
  /\ inpos' = inpos + FreadCount(4)
  /\ i' = IF FreadCount(4) # 0 THEN i + 1 ELSE i
  /\ log' = IF FreadCount(4) # 0 THEN log ELSE Append(log, "Unexpected input file end!")
  /\ output' = output \o LastWord \o SecureBootOpen
  /\ pc' = "bld_read"
  /\ UNCHANGED <<argc, operation, status, inData, input_size, input_words, binVars,
                 outPreExists, outOld, signVars, shaVars>>

(***************************************************************************)
(* image_gen.c: -bld_vhd, digest and signature                             *)
(***************************************************************************)

\* malloc(input_size) returns NULL
BldMallocFail ==
  /\ pc = "bld_read"
  /\ inpos' = 0
  /\ log' = Append(log, "Memory allocation failed!")
  /\ Return(-5)
  /\ UNCHANGED <<argc, operation, inData, input_size, input_words, buffer, binVars, i,
                 outVars, signVars, shaVars>>

\* fread(input_buf, 1, input_size, input) returns less than input_size
BldReadFail ==
  /\ pc = "bld_read"
  /\ \E n \in {0, input_size - 1} : inpos' = n
  /\ log' = Append(log, "Failed to read input file for SHA256!")
  /\ Return(-6)
  /\ UNCHANGED <<argc, operation, inData, input_size, input_words, buffer, binVars, i,
                 outVars, signVars, shaVars>>

\* what fread(input_buf, 1, n, input) stores after rewind(input)
ReadWhole(file, n) == SubSeq(file, 1, n)

\* rewind, malloc and fread succeed: the input file is in input_buf
BldReadInput ==
  /\ pc = "bld_read"
  /\ input_buf' = ReadWhole(inData, input_size)
  /\ inpos' = input_size
  /\ pc' = "bld_hash"
  /\ UNCHANGED <<argc, operation, status, log, inData, input_size, input_words, buffer,
                 binVars, i, outVars, sha256_digest, digestFile, sigFile, signer_calls,
                 ret, sig_file, sig_len, signature_buf, shaVars>>

\* the process is killed: what the stream had not flushed may be lost
Crash ==
  /\ pc' = "crashed"
  /\ \E n \in {0, Len(output)} : output' = SubSeq(output, 1, n)

\* a faulty hand-over: main goes on before sha256 has compressed its last block
ShaReturnedEarly == sha_pc \in {"length", "done"}

\* the call sha256(input_buf, input_size, sha256_digest) has returned
ShaReturned == sha_pc = "done"

\* sha256 has filled sha256_digest; free(input_buf)
BldHashDone ==
  /\ pc = "sha256"
  /\ operation = "-bld_vhd"
  /\ ShaReturned
  /\ sha256_digest' = out_digest
  /\ input_buf' = <<>>
  /\ pc' = "bld_digest_file"
  /\ UNCHANGED <<argc, operation, status, log, inVars, binVars, i, outVars, digestFile,
                 sigFile, signer_calls, ret, sig_file, sig_len, signature_buf, shaVars>>

\* fopen("sha256.bin", "wb") succeeds: the 8 digest words are written to it
BldWriteDigest ==
  /\ pc = "bld_digest_file"
  /\ digestFile' = [exists |-> TRUE, content |-> sha256_digest]
  /\ pc' = "bld_sign"
  /\ UNCHANGED <<argc, operation, status, log, inVars, binVars, i, outVars, input_buf,
                 sha256_digest, sigFile, signer_calls, ret, sig_file, sig_len,
                 signature_buf, shaVars>>

\* fopen("sha256.bin", "wb") returns NULL: the message is printed and
\* fwrite and fclose are called on the null stream, which is undefined: the
\* process is killed, or the calls fail and main goes on
BldDigestFileNull ==
  /\ pc = "bld_digest_file"
  /\ log' = Append(log, "Failed to open temp digest file!")
  /\ \/ Crash
     \/ pc' = "bld_sign" /\ UNCHANGED output
  /\ UNCHANGED <<argc, operation, status, inVars, binVars, i, outPreExists, outOld,
                 signVars, shaVars>>

\* what the signer may leave as sha256.sig
SignerFiles == {NoFile} \cup {[exists |-> TRUE, content |-> Pattern(n)] : n \in SigFileLens}

\* ret = system("openssl dgst -sha256 -sign ... -out sha256.sig sha256.bin")
BldSign ==
  /\ pc = "bld_sign"
  /\ \E r \in {0, 1}, f \in SignerFiles :
       /\ ret' = r
       /\ sigFile' = f
       /\ log' = IF r # 0 THEN Append(log, "OpenSSL signing failed!") ELSE log
  /\ signer_calls' = signer_calls + 1
  /\ pc' = "bld_open_sig"
  /\ UNCHANGED <<argc, operation, status, inVars, binVars, i, outVars, input_buf,
                 sha256_digest, digestFile, sig_file, sig_len, signature_buf, shaVars>>

\* fopen(SIGNATURE_FILE, "rb") succeeds: fread of at most sizeof(signature)
\* bytes, fclose
BldReadSignature ==
  /\ pc = "bld_open_sig"
  /\ sigFile.exists
  /\ sig_file' = "open"
  /\ sig_len' = Min(Len(sigFile.content), SIG_SIZE)
  /\ signature_buf' = SubSeq(sigFile.content, 1, Min(Len(sigFile.content), SIG_SIZE))
  /\ pc' = "bld_cleanup"
  /\ UNCHANGED <<argc, operation, status, log, inVars, binVars, i, outVars, input_buf,
                 sha256_digest, digestFile, sigFile, signer_calls, ret, shaVars>>

\* fopen(SIGNATURE_FILE, "rb") returns NULL (no such file, or not readable):
\* the message is printed and fread and fclose are called on the null
\* stream, which is undefined: the process is killed, or fread returns 0
BldSigFileNull ==
  /\ pc = "bld_open_sig"
  /\ sig_file' = "null"
  /\ log' = Append(log, "Failed to open signature file!")
  /\ \/ Crash /\ UNCHANGED <<sig_len, signature_buf>>
     \/ /\ sig_len' = 0
        /\ signature_buf' = <<>>
        /\ pc' = "bld_cleanup"
        /\ UNCHANGED output
  /\ UNCHANGED <<argc, operation, status, inVars, binVars, i, outPreExists, outOld,
                 input_buf, sha256_digest, digestFile, sigFile, signer_calls, ret, shaVars>>

\* unlink("sha256.bin"); unlink(SIGNATURE_FILE)
BldCleanup ==
  /\ pc = "bld_cleanup"
  /\ digestFile' = NoFile
  /\ sigFile' = NoFile
  /\ pc' = "bld_emit"
  /\ UNCHANGED <<argc, operation, status, log, inVars, binVars, i, outVars, input_buf,
                 sha256_digest, signer_calls, ret, sig_file, sig_len, signature_buf,
                 shaVars>>

\* a faulty signature word: the bytes placed most significant first
SigWordBigEndian(sig, n, k) ==
  LET B(b) == IF k + b < n THEN ShlByte(sig[k + b + 1], 3 - b) ELSE Zero32
  IN  Or32(Or32(B(0), B(1)), Or32(B(2), B(3)))

\* word |= ((uint32_t)signature[k + b]) << (8 * b) for b < 4 and k + b < sig_len
SigWord(sig, n, k) ==
  LET B(b) == IF k + b < n THEN ShlByte(sig[k + b + 1], b) ELSE Zero32
  IN  Or32(Or32(B(0), B(1)), Or32(B(2), B(3)))

\* the lines of for (k = 0; k < sig_len; k += 4)
SigWords(sig, n) ==
  [j \in 1..((n + 3) \div 4) |-> Tok("word,", SigWord(sig, n, 4 * (j - 1)), Zero32)]

\* the signature words are written to the output
BldEmitSignature ==
  /\ pc = "bld_emit"
  /\ output' = output \o SigWords(signature_buf, sig_len)
  /\ pc' = "bld_finish"
  /\ UNCHANGED <<argc, operation, status, log, inVars, binVars, i, outPreExists, outOld,
                 signVars, shaVars>>

\* the code size word, the end of the constant and of the package; close the
\* files, return 0
BldFinish ==
  /\ pc = "bld_finish"
  /\ output' = output \o <<Tok("code_size", ToU32(input_words), Zero32),
                           Tok(");", Zero32, Zero32), Tok("bld_end", Zero32, Zero32)>>
  /\ Return(0)
  /\ UNCHANGED <<argc, operation, log, inVars, binVars, i, outPreExists, outOld,
                 signVars, shaVars>>

(***************************************************************************)
(* image_gen.c: the raw formats                                            *)
(***************************************************************************)

\* bytes per fread of the raw loops
RawChunk == IF operation = "-raw_bin" THEN 1 ELSE 4

\* the header lines of the COE and MIF files; i = 0
RawStart ==
  /\ pc = "raw"
  /\ output' = CASE operation = "-raw_coe" ->
                      <<Tok("coe_radix", Zero32, Zero32), Tok("coe_vector", Zero32, Zero32)>>
                 [] operation = "-raw_mif" ->
                      <<Tok("mif_header", ToU32(input_size \div 4), Zero32)>>
                 [] OTHER -> <<>>
  /\ i' = 0
  /\ pc' = "raw_loop"
  /\ UNCHANGED <<argc, operation, status, log, inVars, binVars, outPreExists, outOld,
                 signVars, shaVars>>

\* the line or byte one pass of a raw loop writes
RawItem(b) ==
  CASE operation = "-raw_bin" -> b[1]
    [] operation = "-raw_hex" -> Tok("hex", TmpWord(b), Zero32)
    [] operation = "-raw_coe" ->
         Tok(IF ToU32(i) = LoopBound THEN "coe;" ELSE "coe,", TmpWord(b), Zero32)
    [] operation = "-raw_mem" -> Tok("mem", TmpWord(b), ToU32(i))
    [] OTHER -> Tok("mif", TmpWord(b), ToU32(i))

\* one pass of while (fread(&buffer, 1, 4 or 1, input) != 0)
RawLoop ==
  /\ pc = "raw_loop"
  /\ FreadCount(RawChunk) # 0
  /\ buffer' = FreadBuffer(RawChunk)
  /\ inpos' = inpos + FreadCount(RawChunk)
  /\ output' = Append(output, RawItem(buffer'))
  /\ i' = IF operation \in {"-raw_coe", "-raw_mem", "-raw_mif"} THEN i + 1 ELSE i
  /\ UNCHANGED <<mainVars, inData, input_size, input_words, binVars, outPreExists,
                 outOld, signVars, shaVars>>

\* fread returns 0: the MIF footer, close the files, return 0
RawFinish ==
  /\ pc = "raw_loop"
  /\ FreadCount(RawChunk) = 0
  /\ output' = IF operation = "-raw_mif" THEN Append(output, Tok("mif_end", Zero32, Zero32))
               ELSE output
  /\ Return(0)
  /\ UNCHANGED <<argc, operation, log, inVars, binVars, i, outPreExists, outOld,
                 signVars, shaVars>>

(***************************************************************************)
(* crypto.c: sha256(data, len, out_digest)                                 *)
(***************************************************************************)

\* main calls sha256(input_buf, input_size, sha256_digest): h is initialised,
\* offset = 0
ShaCall ==
  /\ pc = "bld_hash"
  /\ data' = input_buf
  /\ len' = input_size
  /\ h' = H0
  /\ offset' = 0
  /\ sha_pc' = "loop"
  /\ pc' = "sha256"
  /\ UNCHANGED <<argc, operation, status, log, inVars, binVars, i, outVars, signVars,
                 buf, w, regs, round, phase, out_digest, blocks>>

\* while (offset + 64 <= len): the schedule of the next full block, a..h_ = h
ShaFullBlock ==
  /\ sha_pc = "loop"
  /\ offset + 64 <= len
  /\ w' = Schedule(data, offset)
  /\ regs' = h
  /\ round' = 0
  /\ phase' = "full"
  /\ sha_pc' = "rounds"
  /\ UNCHANGED <<mainVars, inVars, binVars, i, outVars, signVars,
                 data, len, h, offset, buf, out_digest>>
  /\ blocks' = Append(blocks, SubSeq(data, offset + 1, offset + 64))

\* one pass of for (i = 0; i < 64; i++) of the compression
ShaRound ==
  /\ sha_pc = "rounds"
  /\ round < 64
  /\ regs' = Round(regs, w, round)
  /\ round' = round + 1
  /\ UNCHANGED <<mainVars, inVars, binVars, i, outVars, signVars,
                 data, len, h, offset, buf, w, phase, sha_pc, out_digest, blocks>>

\* end of a full block: h += a..h_, offset += 64
ShaFullBlockEnd ==
  /\ sha_pc = "rounds"
  /\ round = 64
  /\ phase = "full"
  /\ h' = AddState(h, regs)
  /\ offset' = offset + 64
  /\ sha_pc' = "loop"
  /\ UNCHANGED <<mainVars, inVars, binVars, i, outVars, signVars,
                 data, len, buf, w, regs, round, phase, out_digest, blocks>>

\* memset(buf, 0, 64); memcpy(buf, data + offset, rem); buf[rem] = 0x80
PadBuffer(p, off, rem) ==
  [j \in 1..64 |-> IF j <= rem THEN p[off + j] ELSE IF j = rem + 1 THEN 128 ELSE 0]

\* the loop that reads each word of buf big-endian and stores it back
\* big-endian
StoreBack(b) ==
  [j \in 1..64 |->
     LET q  == (j - 1) \div 4
         ww == BigEndianWord(b[4*q + 1], b[4*q + 2], b[4*q + 3], b[4*q + 4])
     IN  ByteOf(ww, 3 - ((j - 1) % 4))]

\* the loop is left with rem < 56: the padded buffer has room for the length
ShaPadShort ==
  /\ sha_pc = "loop"
  /\ ~(offset + 64 <= len)
  /\ len - offset < 56
  /\ buf' = PadBuffer(data, offset, len - offset)
  /\ sha_pc' = "length"
  /\ UNCHANGED <<mainVars, inVars, binVars, i, outVars, signVars,
                 data, len, h, offset, w, regs, round, phase, out_digest, blocks>>

\* the loop is left with rem >= 56: the padded buffer is a block of its own
ShaPadLong ==
  /\ sha_pc = "loop"
  /\ ~(offset + 64 <= len)
  /\ len - offset >= 56
  /\ buf' = StoreBack(PadBuffer(data, offset, len - offset))
  /\ w' = Schedule(buf', 0)
  /\ regs' = h
  /\ round' = 0
  /\ phase' = "pad"
  /\ sha_pc' = "rounds"
  /\ UNCHANGED <<mainVars, inVars, binVars, i, outVars, signVars,
                 data, len, h, offset, out_digest>>
  /\ blocks' = Append(blocks, buf')

\* end of the padding block: h += a..h_, memset(buf, 0, 64)
ShaPadBlockEnd ==
  /\ sha_pc = "rounds"
  /\ round = 64
  /\ phase = "pad"
  /\ h' = AddState(h, regs)
  /\ buf' = [j \in 1..64 |-> 0]
  /\ sha_pc' = "length"
  /\ UNCHANGED <<mainVars, inVars, binVars, i, outVars, signVars,
                 data, len, offset, w, regs, round, phase, out_digest, blocks>>

\* a faulty length field: the length in bytes where the length in bits belongs
AppendLengthBytes(b, n) ==
  [j \in 1..64 |-> IF j <= 56 THEN b[j]
                   ELSE IF j <= 60 THEN 0
                   ELSE ByteOf(ToU32(n), 64 - j)]

\* buf[56..63] = the 64-bit big-endian bits = len * 8 (below 2^32 here, so
\* the upper four bytes are 0)
AppendLength(b, n) ==
  [j \in 1..64 |-> IF j <= 56 THEN b[j]
                   ELSE IF j <= 60 THEN 0
                   ELSE ByteOf(ToU32(n * 8), 64 - j)]

\* the length is appended; the schedule of the last block, a..h_ = h
ShaLength ==
  /\ sha_pc = "length"
  /\ buf' = AppendLength(buf, len)
  /\ w' = Schedule(buf', 0)
  /\ regs' = h
  /\ round' = 0
  /\ phase' = "final"
  /\ sha_pc' = "rounds"
  /\ UNCHANGED <<mainVars, inVars, binVars, i, outVars, signVars,
                 data, len, h, offset, out_digest>>
  /\ blocks' = Append(blocks, buf')

\* end of the last block: h += a..h_, out_digest[i] = h[i], return
ShaFinalBlockEnd ==
  /\ sha_pc = "rounds"
  /\ round = 64
  /\ phase = "final"
  /\ h' = AddState(h, regs)
  /\ out_digest' = h'
  /\ sha_pc' = "done"
  /\ UNCHANGED <<mainVars, inVars, binVars, i, outVars, signVars,
                 data, len, offset, buf, w, regs, round, phase, blocks>>

(***************************************************************************)
(* Specifications                                                          *)
(***************************************************************************)

\* the steps of sha256
ShaNext ==
  \/ ShaFullBlock
  \/ ShaRound
  \/ ShaFullBlockEnd
  \/ ShaPadShort
  \/ ShaPadLong
  \/ ShaPadBlockEnd
  \/ ShaLength
  \/ ShaFinalBlockEnd

Next ==
  \/ Usage
  \/ InvalidOperation
  \/ SelectOperation
  \/ InputFileError
  \/ InputFileEmpty
  \/ OpenInput
  \/ OutputFileError
  \/ OpenOutput
  \/ AppBinReserve
  \/ AppBinLoop
  \/ AppBinHeader
  \/ VhdHeader
  \/ VhdLoop
  \/ VhdLoopBreak
  \/ VhdLoopExit
  \/ AppVhdLast
  \/ BldVhdLast
  \/ BldMallocFail
  \/ BldReadFail
  \/ BldReadInput
  \/ ShaCall
  \/ ShaNext
  \/ BldHashDone
  \/ BldWriteDigest
  \/ BldDigestFileNull
  \/ BldSign
  \/ BldReadSignature
  \/ BldSigFileNull
  \/ BldCleanup
  \/ BldEmitSignature
  \/ BldFinish
  \/ RawStart
  \/ RawLoop
  \/ RawFinish

\* one run of the image generator
Spec == Init /\ [][Next]_vars

\* a direct call sha256(data, len, out_digest) on one of the messages
InitSha ==
  /\ pc = "sha256"
  /\ argc = 0
  /\ operation = "sha256"
  /\ status = 0
  /\ log = <<>>
  /\ inData = <<>> /\ inpos = 0 /\ input_size = 0 /\ input_words = 0
  /\ buffer = <<0, 0, 0, 0>>
  /\ size = <<0, 0>> /\ checksum = <<0, 0>>
  /\ i = 0
  /\ outPreExists = FALSE
  /\ outOld = TRUE
  /\ output = <<>>
  /\ input_buf = <<>> /\ sha256_digest = <<>>
  /\ digestFile = NoFile /\ sigFile = NoFile
  /\ signer_calls = 0 /\ ret = 0
  /\ sig_file = "unset" /\ sig_len = 0 /\ signature_buf = <<>>
  /\ data \in ShaMessages
  /\ len = Len(data)
  /\ h = H0
  /\ offset = 0
  /\ buf = <<>> /\ w = <<>> /\ regs = <<>> /\ round = 0 /\ phase = "none"
  /\ sha_pc = "loop"
  /\ out_digest = <<>>
  /\ blocks = <<>>

\* sha256 on its own
SpecSha == InitSha /\ [][ShaNext]_vars

(***************************************************************************)
(* Properties                                                              *)
(***************************************************************************)

\* the run has ended: main has returned, or the process was killed
Terminated == pc \in {"done", "crashed"}

\* the little-endian 32-bit word at C index k of the byte sequence b
WordLE(b, k) == <<b[k + 4] * 256 + b[k + 3], b[k + 2] * 256 + b[k + 1]>>

\* the sum modulo 2^32 of the first n little-endian words of b
RECURSIVE SumWords(_, _)
SumWords(b, n) ==
  IF n = 0 THEN Zero32 ELSE Add32(SumWords(b, n - 1), WordLE(b, 4 * (n - 1)))

\* a -app_bin run that has written its file and returned 0
AppBinDone == operation = "-app_bin" /\ pc = "done" /\ status = 0

\* the size and checksum fields of the header of the written file
SizeField     == WordLE(output, 4)
ChecksumField == WordLE(output, 8)

\* C1: for an input whose length is a non-zero multiple of 4, the checksum
\* word -app_bin writes is (~sum) + 1 of the sum of the input's little-endian
\* words, and the sum plus the checksum is 0 modulo 2^32.
C1_ChecksumCancelsSum ==
  (AppBinDone /\ input_size > 0 /\ input_size % 4 = 0) =>
     LET sum == SumWords(inData, input_size \div 4)
     IN  /\ ChecksumField = Add32(Not32(sum), ToU32(1))
         /\ Add32(sum, ChecksumField) = Zero32

\* C1 witness: the run on 01 00 00 00 02 00 00 00 has written checksum FFFFFFFD
C1_Witness ==
  /\ AppBinDone
  /\ inData = <<1, 0, 0, 0, 2, 0, 0, 0>>
  /\ ChecksumField = <<\hFFFF, \hFFFD>>

\* the signer has failed: system() returned non-zero, the signature file
\* did not open, or fewer than SIG_SIZE bytes were read from it
SignerFailed ==
  \/ signer_calls > 0 /\ ret # 0
  \/ sig_file = "null"
  \/ sig_file = "open" /\ sig_len < SIG_SIZE

\* the output holds the opening line of bootloader_init_secure_boot_info_c
HasSecureBootOpen ==
  /\ operation = "-bld_vhd"
  /\ \E j \in DOMAIN output : output[j][1] = "secure_boot_info"

\* the positions of the words of the secure-boot record in the output
RecordWords ==
  IF HasSecureBootOpen
  THEN LET open == CHOOSE j \in DOMAIN output : output[j][1] = "secure_boot_info"
       IN  {j \in DOMAIN output : j > open /\ output[j][1] \in {"word,", "code_size"}}
  ELSE {}

\* the code size word has been written
CodeSizeWritten == \E j \in RecordWords : output[j][1] = "code_size"

\* C2: in -bld_vhd a signer failure is fatal: the run never writes signature
\* words or the code-size word, and it ends with a failure status.
C2_SignerFailureIsFatal ==
  SignerFailed => /\ RecordWords = {}
                  /\ pc # "bld_finish"
                  /\ (pc = "done" => status # 0)

\* the output holds an opened secure-boot constant that lacks signature
\* words or the code size
PartialRecord ==
  /\ HasSecureBootOpen
  /\ ~(CodeSizeWritten /\ Cardinality(RecordWords) = SIG_SIZE \div 4 + 1)

\* C3: after a -bld_vhd run in which the signer failed the output file is
\* absent or as it was before the run, and no run leaves an opened
\* secure-boot constant without all its signature words and its code size.
C3_NoPartialRecord ==
  (Terminated /\ SignerFailed) => (outOld /\ ~PartialRecord)

\* C4: when a -bld_vhd run ends, on whichever path, neither sha256.bin nor
\* sha256.sig is left behind.
C4_TempFilesRemoved ==
  (Terminated /\ operation = "-bld_vhd") => (~digestFile.exists /\ ~sigFile.exists)

\* C5: the secure-boot record of every finished -bld_vhd run has exactly
\* SIG_SIZE/4 + 1 words, whatever number of bytes the signer returned.
C5_RecordLengthFixed ==
  (operation = "-bld_vhd" /\ pc = "done" /\ status = 0) =>
     Cardinality(RecordWords) = SIG_SIZE \div 4 + 1

\* C6: the -app_bin output is the 12-byte header (0x4788CAFE, size,
\* checksum, little-endian) followed by the input bytes verbatim, and the
\* size field is the number of payload bytes.
C6_HeaderThenInputVerbatim ==
  AppBinDone =>
     /\ SubSeq(output, 1, 4) = <<\hFE, \hCA, \h88, \h47>>
     /\ SizeField = ToU32(Len(output) - 12)
     /\ SubSeq(output, 13, Len(output)) = inData

\* C7: for an input whose length is not a multiple of 4, the size field is
\* 4 * floor(length / 4) and the checksum is the negated sum of the complete
\* words only.
C7_LeftoverBytesDropped ==
  (AppBinDone /\ input_size % 4 # 0) =>
     /\ SizeField = ToU32(4 * (input_size \div 4))
     /\ ChecksumField = Add32(Not32(SumWords(inData, input_size \div 4)), ToU32(1))

\* the published SHA-256 digests of the empty message and of "abc"
EmptyDigest ==
  << <<\he3b0, \hc442>>, <<\h98fc, \h1c14>>, <<\h9afb, \hf4c8>>, <<\h996f, \hb924>>,
     <<\h27ae, \h41e4>>, <<\h649b, \h934c>>, <<\ha495, \h991b>>, <<\h7852, \hb855>> >>
AbcDigest ==
  << <<\hba78, \h16bf>>, <<\h8f01, \hcfea>>, <<\h4141, \h40de>>, <<\h5dae, \h2223>>,
     <<\hb003, \h61a3>>, <<\h9617, \h7a9c>>, <<\hb410, \hff61>>, <<\hf200, \h15ad>> >>

\* C8: sha256 returns the published digest for the empty message and for
\* "abc", as the words h[0]..h[7] in that order.
C8_ReferenceDigests ==
  sha_pc = "done" =>
     /\ (data = <<>> => out_digest = EmptyDigest)
     /\ (data = <<97, 98, 99>> => out_digest = AbcDigest)

\* C8 witness: sha256 has returned from the call on "abc"
C8_Witness == sha_pc = "done" /\ data = <<97, 98, 99>> /\ Len(out_digest) = 8

\* C9: in -bld_vhd the whole input is in memory before sha256 starts,
\* sha256 has returned before the signer is called, and no word of the
\* secure-boot record is written before the signer has returned.
C9_PipelineOrder ==
  /\ (operation = "-bld_vhd" /\ sha_pc # "idle") => (data = inData /\ len = Len(inData))
  /\ signer_calls > 0 => (sha_pc = "done" /\ sha256_digest = out_digest)
  /\ RecordWords # {} => signer_calls > 0

\* C9 witness: a finished run whose record holds all signature words
C9_Witness ==
  /\ operation = "-bld_vhd" /\ pc = "done"
  /\ signer_calls = 1
  /\ Cardinality(RecordWords) = SIG_SIZE \div 4 + 1

\* the fatal condition a finished run has met, "none" if it met none
FatalCondition ==
  CASE operation \notin Operations /\ operation # "" -> "invalid operation"
    [] log # <<>> /\ log[Len(log)] = "Input file error" -> "unreadable input"
    [] log # <<>> /\ log[Len(log)] = "Input file is empty" -> "empty input"
    [] log # <<>> /\ log[Len(log)] = "Output file error" -> "unwritable output"
    [] log # <<>> /\ log[Len(log)] = "Memory allocation failed!" -> "allocation failure"
    [] log # <<>> /\ log[Len(log)] = "Failed to read input file for SHA256!" -> "read failure"
    [] SignerFailed -> "signing failure"
    [] OTHER -> "none"

\* C10: every fatal condition ends the run with a non-zero exit status, and
\* a run that returns 0 has met no fatal condition.
C10_FatalMeansNonZero ==
  (pc = "done" /\ operation # "sha256") =>
     /\ FatalCondition # "none" => status % 256 # 0
     /\ status % 256 = 0 => FatalCondition = "none"

\* the 64-bit big-endian encoding of a bit length n below 2^31
LengthBE(n) ==
  <<0, 0, 0, 0, (n \div 16777216) % 256, (n \div 65536) % 256, (n \div 256) % 256, n % 256>>

\* the reference padding of a message d: d, 0x80, zero bytes up to 56 modulo
\* 64, then the bit length of d
RefPadded(d) ==
  d \o <<128>> \o [j \in 1..((55 - Len(d)) % 64) |-> 0] \o LengthBE(8 * Len(d))

\* the j-th 64-byte block of the reference padding of d, j = 1, 2, ...
RefBlock(d, j) == SubSeq(RefPadded(d), 64 * (j - 1) + 1, 64 * j)

\* sha256 has left its loop over the full blocks: rem = len - offset is set
\* and buf is in use
ShaPadding ==
  \/ sha_pc \in {"length", "done"}
  \/ sha_pc = "rounds" /\ phase \in {"pad", "final"}

\* C11: the blocks sha256 compresses are the 64-byte blocks of the reference
\* padding data || 0x80 || zeros || 64-bit big-endian 8*len, whose length is
\* the smallest multiple of 64 that is >= len + 9: after the floor(len/64)
\* full blocks one more block when len mod 64 <= 55 and two when it is >= 56;
\* and rem, the index of the 0x80 byte in buf, stays within 0..63.
C11_PaddedBlocks ==
  sha_pc # "idle" =>
     /\ \A j \in 1..Len(blocks) : blocks[j] = RefBlock(data, j)
     /\ Len(RefPadded(data)) % 64 = 0
     /\ Len(RefPadded(data)) >= len + 9
     /\ Len(RefPadded(data)) - 64 < len + 9
     /\ sha_pc = "done" =>
           /\ Len(blocks) * 64 = Len(RefPadded(data))
           /\ Len(blocks) = (len \div 64) + (IF len % 64 <= 55 THEN 1 ELSE 2)
     /\ ShaPadding =>
           /\ len - offset \in 0..63
           /\ Len(buf) = 64

\* C11 witness: sha256 has returned from a 120-byte message after one full
\* block and two padding blocks
C11_Witness == sha_pc = "done" /\ len = 120 /\ Len(blocks) = 3

\* the position in the output of the opening line of the secure-boot constant
SecureBootStart == CHOOSE j \in DOMAIN output : output[j][1] = "secure_boot_info"

\* byte c (C index) of the byte sequence s, 0 beyond its end
ByteOrZero(s, c) == IF c < Len(s) THEN s[c + 1] ELSE 0

\* the j-th little-endian word of the byte sequence s, j = 1, 2, ..., its
\* last group filled with zero bytes
PaddedWordLE(s, j) ==
  <<ByteOrZero(s, 4 * (j - 1) + 3) * 256 + ByteOrZero(s, 4 * (j - 1) + 2),
    ByteOrZero(s, 4 * (j - 1) + 1) * 256 + ByteOrZero(s, 4 * (j - 1))>>

\* a -bld_vhd run that has returned 0
BldDone == operation = "-bld_vhd" /\ pc = "done" /\ status = 0

ImageWords ==
  {j \in DOMAIN output : j < SecureBootStart /\ output[j][1] \in {"word,", "word"}}

\* C13: for every non-empty input, lengths 1..3 and lengths that are no
\* multiple of 4 included, -bld_vhd writes floor(length / 4) image words, the
\* number it writes as the code-size word, and the word loop ends without
\* reporting an unexpected end of the input.
C13_ImageWordsMatchCodeSize ==
  BldDone =>
     /\ Cardinality(ImageWords) = Len(inData) \div 4
     /\ \E j \in RecordWords :
           output[j] = <<"code_size", ToU32(Cardinality(ImageWords)), Zero32>>
     /\ \A m \in DOMAIN log : log[m] # "Unexpected input file end!"
====
